---- MODULE Spec2Model ----
(***************************************************************************)
(* Model of studio-mcp's blueprint engine (package internal/blueprint) and *)
(* of the tool handler that calls it.                                      *)
(*                                                                         *)
(* A Go string is modelled as a sequence of one-character strings, so that *)
(* strings.Index, HasPrefix, SplitN, TrimSpace ... are computed the way    *)
(* the Go standard library computes them.  Offsets are 0-based as in Go:   *)
(* Slice(s, i, j) is s[i:j].                                               *)
(***************************************************************************)
EXTENDS Integers, Sequences, FiniteSets, TLC

VARIABLES
    pc,       \* "start" | "ready" | "called" | "panicked" | "failed"
    argv,     \* the argument vector handed to FromArgs
    bp,       \* the Blueprint FromArgs returned (NoBlueprint before / on error)
    ferr,     \* the error FromArgs returned ("" when none)
    params,   \* the values map of the BuildCommandArgs call in progress
    out,      \* the argument vector BuildCommandArgs returned (<<>> for nil)
    err,      \* the error BuildCommandArgs returned (NoError when nil)
    toolResult, \* what the tool handler returned for the call (NoResult before)
    executed, \* whether the handler started the subprocess for the call
    served,   \* whether an earlier tool call has been served
    cli,      \* the arguments studio-mcp was started with
    parsed    \* what parseArgs returned for them (NotParsed before)

vars == <<pc, argv, bp, ferr, params, out, err, toolResult, executed, served,
          cli, parsed>>

----------------------------------------------------------------------------
(* Go strings *)

Slice(s, i, j) == SubSeq(s, i + 1, j)

From(s, i) == SubSeq(s, i + 1, Len(s))

HasPrefix(s, p) == Len(s) >= Len(p) /\ SubSeq(s, 1, Len(p)) = p

HasSuffix(s, p) == Len(s) >= Len(p) /\ SubSeq(s, Len(s) - Len(p) + 1, Len(s)) = p

\* strings.Index: the offset of the first occurrence of sub in s, or -1
Index(s, sub) ==
    LET hits == {i \in 0..(Len(s) - Len(sub)) : Slice(s, i, i + Len(sub)) = sub}
    IN  IF hits = {} THEN -1 ELSE CHOOSE i \in hits : \A j \in hits : i <= j

Contains(s, sub) == Index(s, sub) # -1

\* the white space strings.TrimSpace removes
WhiteSpace == {" ", "\t", "\n", "\r", "\f"}

RECURSIVE TrimLeftSpace(_)
TrimLeftSpace(s) ==
    IF s # <<>> /\ Head(s) \in WhiteSpace THEN TrimLeftSpace(Tail(s)) ELSE s

RECURSIVE TrimRightSpace(_)
TrimRightSpace(s) ==
    IF s # <<>> /\ s[Len(s)] \in WhiteSpace THEN TrimRightSpace(SubSeq(s, 1, Len(s) - 1)) ELSE s

TrimSpace(s) == TrimRightSpace(TrimLeftSpace(s))

\* strings.TrimLeft(s, "-")
RECURSIVE TrimLeftDash(_)
TrimLeftDash(s) ==
    IF s # <<>> /\ Head(s) = "-" THEN TrimLeftDash(Tail(s)) ELSE s

TrimSuffix(s, p) == IF HasSuffix(s, p) THEN SubSeq(s, 1, Len(s) - Len(p)) ELSE s

\* strings.ReplaceAll for one-character old and new
ReplaceAll(s, old, new) == [i \in 1..Len(s) |-> IF s[i] = old THEN new ELSE s[i]]

\* strings.SplitN(s, "#", 2)
SplitHash(s) ==
    LET i == Index(s, <<"#">>)
    IN  IF i = -1 THEN <<s>> ELSE <<Slice(s, 0, i), From(s, i + 1)>>

RECURSIVE Join(_)
Join(parts) == IF parts = <<>> THEN <<>> ELSE Head(parts) \o Join(Tail(parts))

\* strings.Join(parts, " ")
RECURSIVE JoinSpace(_)
JoinSpace(parts) ==
    IF parts = <<>> THEN <<>>
    ELSE IF Len(parts) = 1 THEN Head(parts)
    ELSE Head(parts) \o <<" ">> \o JoinSpace(Tail(parts))

OpenReq == <<"{", "{">>
CloseReq == <<"}", "}">>
OpenOpt == <<"[">>
CloseOpt == <<"]">>
Dots == <<".", ".", ".">>

----------------------------------------------------------------------------
(* Tokens *)

TextToken(v) ==
    [type |-> "text", Value |-> v, Name |-> <<>>, Description |-> <<>>,
     Required |-> FALSE, IsArray |-> FALSE, OriginalFlag |-> <<>>]

FieldToken(name, desc, required, isArray, flag) ==
    [type |-> "field", Value |-> <<>>, Name |-> name, Description |-> desc,
     Required |-> required, IsArray |-> isArray, OriginalFlag |-> flag]

\* the nil Token parseField returns for text that is no valid field
NilToken ==
    [type |-> "nil", Value |-> <<>>, Name |-> <<>>, Description |-> <<>>,
     Required |-> FALSE, IsArray |-> FALSE, OriginalFlag |-> <<>>]

\* fmt.Sprintf("Enable %s flag", originalFlag)
EnableFlagDescription(flag) ==
    <<"E", "n", "a", "b", "l", "e", " ">> \o flag \o <<" ", "f", "l", "a", "g">>

\* parseField without the check for an empty name
parseFieldNoEmptyCheck(field) ==
    LET isReq == HasPrefix(field, OpenReq) /\ HasSuffix(field, CloseReq)
        isOpt == HasPrefix(field, OpenOpt) /\ HasSuffix(field, CloseOpt)
    IN  IF ~isReq /\ ~isOpt THEN NilToken
        ELSE
        LET content == IF isReq THEN Slice(field, 2, Len(field) - 2)
                       ELSE Slice(field, 1, Len(field) - 1)
            parts == SplitHash(content)
            name0 == TrimSpace(parts[1])
            desc0 == IF Len(parts) > 1 THEN TrimSpace(parts[2]) ELSE <<>>
        IN  FieldToken(name0, desc0, isReq, FALSE, <<>>)

parseField(field) ==
    LET isReq == HasPrefix(field, OpenReq) /\ HasSuffix(field, CloseReq)
        isOpt == HasPrefix(field, OpenOpt) /\ HasSuffix(field, CloseOpt)
    IN  IF ~isReq /\ ~isOpt THEN NilToken
        ELSE
        LET content == IF isReq THEN Slice(field, 2, Len(field) - 2)
                       ELSE Slice(field, 1, Len(field) - 1)
            required == isReq
            parts == SplitHash(content)
            name0 == TrimSpace(parts[1])
        IN  IF name0 = <<>> THEN NilToken
            ELSE
            LET desc0 == IF Len(parts) > 1 THEN TrimSpace(parts[2]) ELSE <<>>
                isArray == HasSuffix(name0, Dots)
                name1 == IF isArray THEN TrimSpace(TrimSuffix(name0, Dots)) ELSE name0
                isFlag == ~required /\ HasPrefix(name1, <<"-">>)
                originalFlag == IF isFlag THEN name1 ELSE <<>>
                name2 == IF isFlag THEN TrimLeftDash(name1) ELSE name1
                desc1 == IF isFlag /\ desc0 = <<>>
                         THEN EnableFlagDescription(originalFlag) ELSE desc0
            IN  FieldToken(name2, desc1, required, isArray, originalFlag)

\* the nil *templateMatch
NoMatch == [Start |-> -1, End |-> -1, Type |-> "none"]

findNextTemplate(word, startPos) ==
    LET remaining == From(word, startPos)
        requiredStart == Index(remaining, OpenReq)
        optionalStart == Index(remaining, OpenOpt)
        isRequired == requiredStart # -1
                      /\ (optionalStart = -1 \/ requiredStart < optionalStart)
    IN  IF ~isRequired /\ optionalStart = -1 THEN NoMatch
        ELSE
        LET nextStart == IF isRequired THEN requiredStart ELSE optionalStart
            templateType == IF isRequired THEN "required" ELSE "optional"
            absoluteStart == startPos + nextStart
            endMarker == IF isRequired THEN CloseReq ELSE CloseOpt
            markerLength == Len(endMarker)
            endIndex == Index(From(remaining, nextStart), endMarker)
        IN  IF endIndex = -1 THEN NoMatch
            ELSE [Start |-> absoluteStart,
                  End |-> absoluteStart + endIndex + markerLength,
                  Type |-> templateType]

\* the loop of tokenizeShellWord from position pos with the tokens found so far
RECURSIVE tokenizeLoop(_, _, _)
tokenizeLoop(word, pos, tokens) ==
    IF pos >= Len(word) THEN tokens
    ELSE
    LET templateStart == findNextTemplate(word, pos)
    IN  IF templateStart = NoMatch
        THEN Append(tokens, TextToken(From(word, pos)))
        ELSE
        LET withText == IF templateStart.Start > pos
                        THEN Append(tokens, TextToken(Slice(word, pos, templateStart.Start)))
                        ELSE tokens
            templateText == Slice(word, templateStart.Start, templateStart.End)
            token == parseField(templateText)
            withField == IF token # NilToken THEN Append(withText, token)
                         ELSE Append(withText, TextToken(templateText))
        IN  tokenizeLoop(word, templateStart.End, withField)

\* tokenizeShellWord returning the tokens of the loop, were there none
tokenizeShellWordNoFallback(word) == tokenizeLoop(word, 0, <<>>)

\* tokenizeShellWord taking a word wrapped in {{ and }} as one field
tokenizeShellWordWrapped(word) ==
    IF HasPrefix(word, OpenReq) /\ HasSuffix(word, CloseReq) /\ parseField(word) # NilToken
    THEN <<parseField(word)>>
    ELSE LET tokens == tokenizeLoop(word, 0, <<>>)
         IN  IF Len(tokens) = 0 THEN <<TextToken(word)>> ELSE tokens

tokenizeShellWord(word) ==
    LET tokens == tokenizeLoop(word, 0, <<>>)
    IN  IF Len(tokens) = 0 THEN <<TextToken(word)>> ELSE tokens

----------------------------------------------------------------------------
(* Blueprint and schema *)

NoBlueprint == [BaseCommand |-> <<>>, ShellWords |-> <<>>]

\* FromArgs rejecting only the empty string as a base command
FromArgsErrorNoTrim(args) ==
    IF Len(args) = 0 THEN "cannot create blueprint: no command provided"
    ELSE IF args[1] = <<>> THEN "cannot create blueprint: empty command provided"
    ELSE ""

\* FromArgs: the error it returns ("" for nil)
FromArgsError(args) ==
    IF Len(args) = 0 THEN "cannot create blueprint: no command provided"
    ELSE IF TrimSpace(args[1]) = <<>> THEN "cannot create blueprint: empty command provided"
    ELSE ""

\* FromArgs: the blueprint it returns when it returns no error
FromArgsBlueprint(args) ==
    [BaseCommand |-> args[1],
     ShellWords |-> [i \in 1..Len(args) |-> tokenizeShellWord(args[i])]]

\* a placeholder shown by its name alone, as FieldToken's String does
renderFieldTokenForDisplayPlain(token) ==
    IF token.Required THEN OpenReq \o token.Name \o CloseReq
    ELSE OpenOpt \o token.Name \o CloseOpt

\* renderFieldTokenForDisplay: a placeholder as the command format shows it
renderFieldTokenForDisplay(token) ==
    LET name0 == IF token.OriginalFlag # <<>> THEN token.OriginalFlag ELSE token.Name
        name == IF token.IsArray THEN name0 \o Dots ELSE name0
    IN  IF token.Required THEN OpenReq \o name \o CloseReq
        ELSE OpenOpt \o name \o CloseOpt

\* renderTokensForDisplay: one shell word as the command format shows it
renderTokensForDisplay(tokens) ==
    IF Len(tokens) = 1
    THEN IF tokens[1].type = "field" THEN renderFieldTokenForDisplay(tokens[1])
         ELSE tokens[1].Value
    ELSE Join([i \in 1..Len(tokens) |->
                  IF tokens[i].type = "field" THEN renderFieldTokenForDisplay(tokens[i])
                  ELSE tokens[i].Value])

GetBaseCommand(b) == b.BaseCommand

GetCommandFormat(b) ==
    JoinSpace([i \in 1..Len(b.ShellWords) |-> renderTokensForDisplay(b.ShellWords[i])])

\* the backquote character, which a string of this notation cannot hold
Backquote == "backquote"

RunPrefix ==
    <<"R", "u", "n", " ", "t", "h", "e", " ", "s", "h", "e", "l", "l", " ", "c", "o", "m", "m", "a", "n", "d", " ", Backquote>>

\* GetToolDescription: Run the shell command, then the format in backquotes
GetToolDescription(b) == RunPrefix \o GetCommandFormat(b) \o <<Backquote>>

normalizeFieldName(name) == ReplaceAll(name, "-", "_")

\* contains(slice, item)
contains(slice, item) == \E i \in 1..Len(slice) : slice[i] = item

ArrayDefaultDescription == <<"A", "d", "d", "i", "t", "i", "o", "n", "a", "l", " ", "c", "o", "m", "m", "a", "n", "d", " ", "l", "i", "n", "e", " ", "a", "r", "g", "u", "m", "e", "n", "t", "s">>

EmptySchema == [Properties |-> <<>>, Required |-> <<>>]

\* the inner loop's body with every array placeholder listed as required
schemaAddTokenArrayRequired(schema, token) ==
    IF token.type # "field" THEN schema
    ELSE
    LET normalizedName == normalizeFieldName(token.Name)
        properties == schema.Properties
        required == schema.Required
        addRequired == IF (token.Required \/ token.IsArray)
                          /\ ~contains(required, normalizedName)
                       THEN Append(required, normalizedName) ELSE required
    IN  IF normalizedName \in DOMAIN properties
        THEN [Properties |-> properties, Required |-> addRequired]
        ELSE [Properties |-> (normalizedName :>
                                [Type |-> IF token.IsArray THEN "array" ELSE "string",
                                 Items |-> IF token.IsArray THEN "string" ELSE "",
                                 Description |-> token.Description]) @@ properties,
              Required |-> addRequired]

\* the inner loop's body listing a required token without looking whether the
\* list holds its name already
schemaAddTokenNoContains(schema, token) ==
    IF token.type # "field" THEN schema
    ELSE
    LET normalizedName == normalizeFieldName(token.Name)
        properties == schema.Properties
        required == schema.Required
        addRequired == IF token.Required
                       THEN Append(required, normalizedName) ELSE required
    IN  IF normalizedName \in DOMAIN properties
        THEN [Properties |-> properties, Required |-> addRequired]
        ELSE [Properties |-> (normalizedName :>
                                [Type |-> IF token.IsArray THEN "array" ELSE "string",
                                 Items |-> IF token.IsArray THEN "string" ELSE "",
                                 Description |-> token.Description]) @@ properties,
              Required |-> addRequired]

\* the body of GenerateInputSchema's inner loop for one token
schemaAddToken(schema, token) ==
    IF token.type # "field" THEN schema
    ELSE
    LET normalizedName == normalizeFieldName(token.Name)
        properties == schema.Properties
        required == schema.Required
        addRequired == IF token.Required /\ ~contains(required, normalizedName)
                       THEN Append(required, normalizedName) ELSE required
    IN  IF normalizedName \in DOMAIN properties
        THEN LET existingProp == properties[normalizedName]
                 updated == IF token.Description # <<>> /\ existingProp.Description = <<>>
                            THEN [existingProp EXCEPT !.Description = token.Description]
                            ELSE existingProp
             IN  [Properties |-> [properties EXCEPT ![normalizedName] = updated],
                  Required |-> addRequired]
        ELSE LET prop ==
                     IF token.OriginalFlag # <<>>
                     THEN [Type |-> "boolean", Items |-> "",
                           Description |-> IF token.Description = <<>>
                                           THEN EnableFlagDescription(token.OriginalFlag)
                                           ELSE token.Description]
                     ELSE IF token.IsArray
                     THEN [Type |-> "array", Items |-> "string",
                           Description |-> IF token.Description = <<>>
                                           THEN ArrayDefaultDescription
                                           ELSE token.Description]
                     ELSE [Type |-> "string", Items |-> "",
                           Description |-> token.Description]
                 newRequired == IF token.OriginalFlag # <<>> THEN required ELSE addRequired
             IN  [Properties |-> (normalizedName :> prop) @@ properties,
                  Required |-> newRequired]

RECURSIVE schemaAddTokens(_, _)
schemaAddTokens(schema, tokens) ==
    IF tokens = <<>> THEN schema
    ELSE schemaAddTokens(schemaAddToken(schema, Head(tokens)), Tail(tokens))

RECURSIVE schemaAddWords(_, _)
schemaAddWords(schema, shellWords) ==
    IF shellWords = <<>> THEN schema
    ELSE schemaAddWords(schemaAddTokens(schema, Head(shellWords)), Tail(shellWords))

GenerateInputSchema(b) == schemaAddWords(EmptySchema, b.ShellWords)

----------------------------------------------------------------------------
(* Values of a values map: Go's interface{} holding a string, a bool, a    *)
(* slice, a float64 (a JSON number) or nil.  Every value is a record of    *)
(* the same shape; t is the dynamic type.                                  *)

VString(s) == [t |-> "string", s |-> s, b |-> FALSE, a |-> <<>>, n |-> 0]
VBool(b) == [t |-> "bool", s |-> <<>>, b |-> b, a |-> <<>>, n |-> 0]
VArray(a) == [t |-> "array", s |-> <<>>, b |-> FALSE, a |-> a, n |-> 0]
VNumber(n) == [t |-> "float64", s |-> <<>>, b |-> FALSE, a |-> <<>>, n |-> n]
VNil == [t |-> "nil", s |-> <<>>, b |-> FALSE, a |-> <<>>, n |-> 0]

Digit(d) == <<"0", "1", "2", "3", "4", "5", "6", "7", "8", "9">>[d + 1]

RECURSIVE Itoa(_)
Itoa(n) == IF n < 10 THEN <<Digit(n)>> ELSE Itoa(n \div 10) \o <<Digit(n % 10)>>

\* fmt.Sprintf("%v", value)
RECURSIVE Sprintv(_)
Sprintv(value) ==
    CASE value.t = "string" -> value.s
      [] value.t = "bool" -> IF value.b THEN <<"t", "r", "u", "e">>
                             ELSE <<"f", "a", "l", "s", "e">>
      [] value.t = "float64" -> Itoa(value.n)
      [] value.t = "nil" -> <<"<", "n", "i", "l", ">">>
      [] value.t = "array" ->
            <<"[">> \o JoinSpace([i \in 1..Len(value.a) |-> Sprintv(value.a[i])]) \o <<"]">>

\* fmt.Sprintf("%T", value), for the values of the model
TypeName(value) ==
    CASE value.t = "nil" -> "<nil>"
      [] value.t = "array" -> "[]interface {}"
      [] OTHER -> value.t

----------------------------------------------------------------------------
(* Rendering *)

\* the (nil, false) findParamValue returns for a name it does not find
NotFound == [exists |-> FALSE, value |-> VNil]

Found(v) == [exists |-> TRUE, value |-> v]

\* findParamValue without the underscores-to-dashes attempt
findParamValueNoDashed(p, fieldName) ==
    LET normalized == normalizeFieldName(fieldName)
    IN  IF fieldName \in DOMAIN p THEN Found(p[fieldName])
        ELSE IF normalized \in DOMAIN p THEN Found(p[normalized])
        ELSE NotFound

\* findParamValue with the exact match alone
findParamValueExact(p, fieldName) ==
    IF fieldName \in DOMAIN p THEN Found(p[fieldName]) ELSE NotFound

findParamValue(p, fieldName) ==
    LET normalized == normalizeFieldName(fieldName)
        dashed == ReplaceAll(fieldName, "_", "-")
    IN  IF fieldName \in DOMAIN p THEN Found(p[fieldName])
        ELSE IF normalized \in DOMAIN p THEN Found(p[normalized])
        ELSE IF Contains(fieldName, <<"_">>) /\ dashed \in DOMAIN p THEN Found(p[dashed])
        ELSE NotFound

hasValue(value) ==
    CASE value.t = "string" -> value.s # <<>>
      [] value.t = "bool" -> value.b
      [] value.t = "array" -> Len(value.a) > 0
      [] OTHER -> value.t # "nil"

valueToString(value) ==
    CASE value.t = "string" -> value.s
      [] value.t = "bool" -> IF value.b THEN <<"t", "r", "u", "e">>
                             ELSE <<"f", "a", "l", "s", "e">>
      [] OTHER -> Sprintv(value)

\* what renderShellWord and its helpers return: (shouldInclude, wordResult)
Rendered(include, words) == [include |-> include, words |-> words]

Skip == Rendered(FALSE, <<>>)

\* the string items of a []interface{}, in order
RECURSIVE stringItems(_)
stringItems(arr) ==
    IF arr = <<>> THEN <<>>
    ELSE IF Head(arr).t = "string" THEN <<Head(arr).s>> \o stringItems(Tail(arr))
    ELSE stringItems(Tail(arr))

renderArrayField(fieldToken, p) ==
    LET found == findParamValue(p, fieldToken.Name)
    IN  IF ~found.exists THEN Skip
        ELSE IF found.value.t = "array"
        THEN LET result == stringItems(found.value.a)
             IN  Rendered(Len(result) > 0, result)
        ELSE Skip

renderSingleOptionalField(b, fieldToken, p) ==
    LET found == findParamValue(p, fieldToken.Name)
        inputSchema == GenerateInputSchema(b)
        key == normalizeFieldName(fieldToken.Name)
    IN  IF ~found.exists THEN Skip
        ELSE IF key \in DOMAIN inputSchema.Properties
                /\ inputSchema.Properties[key].Type = "boolean"
        THEN IF found.value.t = "bool" /\ found.value.b
             THEN IF fieldToken.OriginalFlag # <<>>
                  THEN Rendered(TRUE, <<fieldToken.OriginalFlag>>)
                  ELSE Rendered(TRUE, <<(<<"-">> \o fieldToken.Name)>>)
             ELSE Skip
        ELSE IF valueToString(found.value) # <<>>
        THEN Rendered(TRUE, <<valueToString(found.value)>>)
        ELSE Skip

\* first pass of renderShellWord: hasRequiredContent
hasRequiredContent(tokens) ==
    \E i \in 1..Len(tokens) :
        \/ tokens[i].type = "text"
        \/ tokens[i].type = "field" /\ tokens[i].Required

\* first pass of renderShellWord: allOptionalFieldsEmpty
allOptionalFieldsEmpty(tokens, p) ==
    ~ \E i \in 1..Len(tokens) :
        /\ tokens[i].type = "field"
        /\ findParamValue(p, tokens[i].Name).exists
        /\ \/ tokens[i].Required
           \/ hasValue(findParamValue(p, tokens[i].Name).value)

\* second pass of renderShellWord: the parts of the concatenated string
RECURSIVE concatParts(_, _)
concatParts(tokens, p) ==
    IF tokens = <<>> THEN <<>>
    ELSE
    LET t == Head(tokens)
        found == findParamValue(p, t.Name)
        part == IF t.type = "text" THEN <<t.Value>>
                ELSE IF found.exists /\ valueToString(found.value) # <<>>
                THEN <<valueToString(found.value)>>
                ELSE <<>>
    IN  part \o concatParts(Tail(tokens), p)

\* strings.Fields: the space-separated fields of a string
RECURSIVE Fields(_, _)
Fields(s, cur) ==
    IF s = <<>> THEN (IF cur = <<>> THEN <<>> ELSE <<cur>>)
    ELSE IF Head(s) = " "
    THEN (IF cur = <<>> THEN <<>> ELSE <<cur>>) \o Fields(Tail(s), <<>>)
    ELSE Fields(Tail(s), Append(cur, Head(s)))

\* renderConcat splitting the rendered word at spaces, as a shell would
renderConcatSplit(tokens, p) ==
    LET parts == concatParts(tokens, p)
    IN  IF Len(parts) > 0 THEN Rendered(TRUE, Fields(Join(parts), <<>>)) ELSE Skip

renderConcat(tokens, p) ==
    LET parts == concatParts(tokens, p)
    IN  IF Len(parts) > 0 THEN Rendered(TRUE, <<Join(parts)>>) ELSE Skip

renderShellWord(b, tokens, p) ==
    IF ~hasRequiredContent(tokens) /\ allOptionalFieldsEmpty(tokens, p) THEN Skip
    ELSE IF Len(tokens) = 1 /\ tokens[1].type = "field"
    THEN LET fieldToken == tokens[1]
             inputSchema == GenerateInputSchema(b)
             key == normalizeFieldName(fieldToken.Name)
         IN  IF key \in DOMAIN inputSchema.Properties
                /\ inputSchema.Properties[key].Type = "array"
             THEN renderArrayField(fieldToken, p)
             ELSE IF ~fieldToken.Required
             THEN renderSingleOptionalField(b, fieldToken, p)
             ELSE renderConcat(tokens, p)
    ELSE renderConcat(tokens, p)

\* what one shell word appends to result in buildCommandArgsTokenized
wordContribution(b, tokens, p) ==
    LET r == renderShellWord(b, tokens, p)
    IN  IF r.include THEN r.words ELSE <<>>

\* a render loop that puts each word's entries before the earlier ones
RECURSIVE renderWordsPrepending(_, _, _)
renderWordsPrepending(b, shellWords, p) ==
    IF shellWords = <<>> THEN <<>>
    ELSE renderWordsPrepending(b, Tail(shellWords), p)
            \o wordContribution(b, Head(shellWords), p)

RECURSIVE renderWords(_, _, _)
renderWords(b, shellWords, p) ==
    IF shellWords = <<>> THEN <<>>
    ELSE wordContribution(b, Head(shellWords), p) \o renderWords(b, Tail(shellWords), p)

NoError == [kind |-> "none", name |-> <<>>, got |-> ""]

\* fmt.Errorf("missing required parameter: %s", required)
MissingError(name) == [kind |-> "missing", name |-> name, got |-> ""]

\* fmt.Errorf("parameter '%s' must be an array, got %T", name, v)
TypeError(name, v) == [kind |-> "type", name |-> name, got |-> TypeName(v)]

\* the required names validation does not find, in the order of the list
missingRequired(required, p) ==
    SelectSeq(required, LAMBDA r : ~findParamValue(p, r).exists)

\* badArrayKeys looking the supplied key up in the schema as it is spelled
badArrayKeysExactName(inputSchema, p) ==
    {name \in DOMAIN p :
        /\ name \in DOMAIN inputSchema.Properties
        /\ inputSchema.Properties[name].Type = "array"
        /\ p[name].t # "array"}

\* the supplied keys the type validation rejects
badArrayKeys(inputSchema, p) ==
    {name \in DOMAIN p :
        /\ normalizeFieldName(name) \in DOMAIN inputSchema.Properties
        /\ inputSchema.Properties[normalizeFieldName(name)].Type = "array"
        /\ p[name].t # "array"}

Outcome(o, e) == [out |-> o, err |-> e]

\* buildCommandArgsTokenized: the results a call can return.  The type
\* validation ranges over a Go map, whose iteration order is unspecified:
\* with several offending keys any of them may be the one reported.
buildCommandArgsTokenized(b, p) ==
    LET inputSchema == GenerateInputSchema(b)
        missing == missingRequired(inputSchema.Required, p)
        bad == badArrayKeys(inputSchema, p)
    IN  IF missing # <<>> THEN {Outcome(<<>>, MissingError(missing[1]))}
        ELSE IF bad # {} THEN {Outcome(<<>>, TypeError(name, p[name])) : name \in bad}
        ELSE {Outcome(renderWords(b, b.ShellWords, p), NoError)}

BuildCommandArgs(b, p) == buildCommandArgsTokenized(b, p)

\* a render that consumes the shell words it rendered
blueprintAfterRenderConsumed(b, p) ==
    [b EXCEPT !.ShellWords = IF Len(b.ShellWords) > 1
                             THEN SubSeq(b.ShellWords, 1, Len(b.ShellWords) - 1)
                             ELSE b.ShellWords]

\* the blueprint after BuildCommandArgs(p): the call reads BaseCommand and
\* ShellWords, builds the schema in fresh maps, and writes no field
blueprintAfterRender(b, p) == b

----------------------------------------------------------------------------
(* The tool handler *)

\* fmt.Sprintf("%T", v) as text
TypeNameText(got) ==
    CASE got = "string" -> <<"s", "t", "r", "i", "n", "g">>
      [] got = "bool" -> <<"b", "o", "o", "l">>
      [] got = "float64" -> <<"f", "l", "o", "a", "t", "6", "4">>
      [] got = "<nil>" -> <<"<", "n", "i", "l", ">">>
      [] got = "[]interface {}" ->
            <<"[", "]", "i", "n", "t", "e", "r", "f", "a", "c", "e", " ", "{", "}">>

\* err.Error() of the errors buildCommandArgsTokenized returns
ErrorText(e) ==
    IF e.kind = "missing"
    THEN <<"m", "i", "s", "s", "i", "n", "g", " ", "r", "e", "q", "u", "i", "r", "e", "d", " ", "p", "a", "r", "a", "m", "e", "t", "e", "r", ":", " ">> \o e.name
    ELSE <<"p", "a", "r", "a", "m", "e", "t", "e", "r", " ", "'">> \o e.name
         \o <<"'", " ", "m", "u", "s", "t", " ", "b", "e", " ", "a", "n", " ", "a", "r", "r", "a", "y", ",", " ", "g", "o", "t", " ">>
         \o TypeNameText(e.got)

ValidationPrefix == <<"V", "a", "l", "i", "d", "a", "t", "i", "o", "n", " ", "e", "r", "r", "o", "r", ":", " ">>

\* the handler's text for a failed BuildCommandArgs, without the prefix
ValidationErrorTextBare(e) == ErrorText(e)

\* fmt.Sprintf("Validation error: %s", err.Error())
ValidationErrorText(e) == ValidationPrefix \o ErrorText(e)

\* createToolResult(output, isError), returned with a nil error
createToolResult(output, isError) ==
    [returned |-> TRUE, Text |-> output, IsError |-> isError, Err |-> "nil"]

\* no result: before the handler returns, or when it panics
NoResult == [returned |-> FALSE, Text |-> <<>>, IsError |-> FALSE, Err |-> "nil"]

\* what Execute may return for a command: its trimmed output and whether it
\* returned an error (non-zero exit code or spawn error)
ExecuteOutcomes ==
    {[output |-> <<"o", "k">>, failed |-> FALSE], [output |-> <<>>, failed |-> TRUE]}

----------------------------------------------------------------------------
(* The command line of studio-mcp *)

DebugFlag == <<"-", "-", "d", "e", "b", "u", "g">>
VersionFlag == <<"-", "-", "v", "e", "r", "s", "i", "o", "n">>
HelpFlag == <<"-", "-", "h", "e", "l", "p">>
ShortHelpFlag == <<"-", "h">>

NotParsed ==
    [done |-> FALSE, debugFlag |-> FALSE, versionFlag |-> FALSE,
     commandArgs |-> <<>>, err |-> "", flag |-> <<>>]

\* what parseArgs returns: the two flags, the command, and the error ("" for
\* nil) with the flag it names
ParseResult(debugFlag, versionFlag, commandArgs, e, flag) ==
    [done |-> TRUE, debugFlag |-> debugFlag, versionFlag |-> versionFlag,
     commandArgs |-> commandArgs, err |-> e, flag |-> flag]

\* the loop of parseArgs at index i (0-based) with the flags seen so far
RECURSIVE parseArgsLoop(_, _, _, _)
parseArgsLoop(args, i, debugFlag, versionFlag) ==
    IF i >= Len(args) \/ ~HasPrefix(args[i + 1], <<"-">>)
    THEN ParseResult(debugFlag, versionFlag, From(args, i), "", <<>>)
    ELSE LET arg == args[i + 1]
         IN  IF arg = DebugFlag THEN parseArgsLoop(args, i + 1, TRUE, versionFlag)
             ELSE IF arg = VersionFlag THEN parseArgsLoop(args, i + 1, debugFlag, TRUE)
             ELSE IF arg \in {ShortHelpFlag, HelpFlag}
             THEN ParseResult(FALSE, FALSE, <<>>, "help requested", <<>>)
             ELSE ParseResult(FALSE, FALSE, <<>>, "unknown flag", arg)

\* parseArgs taking its own flags wherever they stand
parseArgsAnywhere(args) ==
    LET rest == SelectSeq(args, LAMBDA a : a \notin {DebugFlag, VersionFlag})
        unknown == SelectSeq(rest, LAMBDA a : HasPrefix(a, <<"-">>))
    IN  IF unknown # <<>> /\ HasPrefix(rest[1], <<"-">>)
        THEN ParseResult(FALSE, FALSE, <<>>, "unknown flag", rest[1])
        ELSE ParseResult(\E k \in 1..Len(args) : args[k] = DebugFlag,
                         \E k \in 1..Len(args) : args[k] = VersionFlag,
                         rest, "", <<>>)

parseArgs(args) == parseArgsLoop(args, 0, FALSE, FALSE)

----------------------------------------------------------------------------
(* Inputs *)

\* the most template words that follow the base command in a combined argv
MaxTail == 2
\* the most keys a values map holds
MaxKeys == 2
\* the longest array value
MaxArr == 2
\* the longest word of the exhaustively enumerated short words
MaxShort == 3

Req(n) == OpenReq \o n \o CloseReq
Opt(n) == OpenOpt \o n \o CloseOpt

NameA == <<"a">>
NameDash == <<"a", "-", "b">>
NameUnder == <<"a", "_", "b">>
NameMixed == <<"a", "-", "b", "_", "c">>
Desc == <<"#", "d">>

\* words with no well-formed placeholder
LiteralWords ==
    {<<"a">>, <<"a", " ", "b">>, <<"-", "a">>, <<>>,
     <<"{", "{", "a">>, <<"a", "}", "}">>, <<"[", "a">>, <<"a", "]">>,
     <<"{", "a", "}">>, Req(<<>>), Req(<<" ">>), Opt(<<>>), Opt(<<" ">>),
     Req(<<"#", "d">>), <<"{", "{", "a", "]">>, <<"[", "a", "}", "}">>}

\* words that are exactly one placeholder
SingleFieldWords ==
    {Req(NameA), Req(NameDash), Req(NameUnder), Req(NameMixed),
     Req(NameA \o Desc), Req(<<" ">> \o NameA \o <<" ">>), Req(NameA \o Dots),
     Req(<<"-">> \o NameA),
     Opt(NameA), Opt(NameDash), Opt(NameUnder), Opt(NameMixed), Opt(NameA \o Desc),
     Opt(NameA \o Dots), Opt(NameDash \o Dots), Opt(NameA \o Dots \o Desc),
     Opt(<<"-">> \o NameA), Opt(<<"-", "-">> \o NameDash), Opt(<<"-">> \o NameA \o Desc),
     Opt(<<"-", "-">> \o NameUnder),
     Opt(Dots), Opt(<<"-">>),
     Req(<<"a", " ", "b">>), Req(<<"A", "b", "1">>), Opt(<<"a", ".", "b">>)}

\* words that mix literal text and placeholders
MixedWords ==
    {<<"p", "=">> \o Req(NameA) \o <<"-", "s">>,
     Req(NameA) \o <<" ">> \o Req(NameDash),
     Req(NameA) \o Req(NameA),
     <<"p">> \o Opt(NameA),
     Opt(NameA) \o Opt(NameDash),
     Req(NameA) \o Opt(NameDash),
     <<"p">> \o Opt(NameA \o Dots),
     <<"p">> \o Opt(<<"-">> \o NameA),
     Req(NameA) \o <<"}", "}">>}

Words == LiteralWords \cup SingleFieldWords \cup MixedWords

\* the words combined with one another in an argv
CoreWords ==
    {<<"a">>, Req(NameA), Opt(NameA), Opt(NameA \o Dots), Opt(<<"-">> \o NameA)}

\* the first word of an argv
BaseWords == {<<"l", "s">>, <<" ">>, Opt(NameA), Req(NameA)}

RECURSIVE SeqsUpTo(_, _)
SeqsUpTo(S, n) ==
    IF n = 0 THEN {<<>>}
    ELSE LET shorter == SeqsUpTo(S, n - 1)
         IN  shorter \cup {Append(q, x) : q \in shorter, x \in S}

Tails == SeqsUpTo(CoreWords, MaxTail)

\* array words of another name than the base placeholder's
OtherArrayWords == {Opt(NameDash \o Dots), Opt(Dots)}

\* every word of at most MaxShort characters over the opening delimiters,
\* the closing bracket, a letter and the description mark
ShortAlphabet == {"{", "[", "]", "a", "#"}

ShortWords == SeqsUpTo(ShortAlphabet, MaxShort)

Desc2 == <<"#", "e">>

\* base commands that are empty, only white space, or padded with it
BlankWords == {<<>>, <<"\t">>, <<" ", "\n">>, <<" ", "l", "\t">>}

\* placeholders of one name, written with and without a description
DescWords ==
    {Req(NameA), Req(NameA \o Desc), Opt(NameA), Opt(NameA \o Desc2),
     Opt(NameA \o Dots), Opt(NameA \o Dots \o Desc), Opt(<<"-">> \o NameA),
     Opt(<<"-">> \o NameA \o Desc2)}

\* the pieces words are assembled from: literal stretches and well-formed
\* placeholders, each with the token it is to become
LiteralPieces ==
    {[w |-> v, t |-> [type |-> "text", Value |-> v, Name |-> <<>>, Description |-> <<>>,
                      Required |-> FALSE, IsArray |-> FALSE, OriginalFlag |-> <<>>]] :
        v \in {<<"p">>, <<" ">>, <<"x", "]">>}}

PlaceholderPieces ==
    {[w |-> <<"{", "{", "a", "}", "}">>,
      t |-> [type |-> "field", Value |-> <<>>, Name |-> <<"a">>, Description |-> <<>>,
             Required |-> TRUE, IsArray |-> FALSE, OriginalFlag |-> <<>>]],
     [w |-> <<"[", "a", "#", "d", "]">>,
      t |-> [type |-> "field", Value |-> <<>>, Name |-> <<"a">>, Description |-> <<"d">>,
             Required |-> FALSE, IsArray |-> FALSE, OriginalFlag |-> <<>>]],
     [w |-> <<"[", "a", ".", ".", ".", "]">>,
      t |-> [type |-> "field", Value |-> <<>>, Name |-> <<"a">>, Description |-> <<>>,
             Required |-> FALSE, IsArray |-> TRUE, OriginalFlag |-> <<>>]],
     [w |-> <<"[", "-", "a", "]">>,
      t |-> [type |-> "field", Value |-> <<>>, Name |-> <<"a">>,
             Description |-> <<"E", "n", "a", "b", "l", "e", " ", "-", "a", " ", "f", "l", "a", "g">>,
             Required |-> FALSE, IsArray |-> FALSE, OriginalFlag |-> <<"-", "a">>]]}

Pieces == LiteralPieces \cup PlaceholderPieces

NoLiteralsSideBySide(q) ==
    \A i \in 1..(Len(q) - 1) : ~(q[i] \in LiteralPieces /\ q[i + 1] \in LiteralPieces)

\* one to three pieces, no literal stretch next to another
PieceSeqs ==
    {q \in {<<x>> : x \in Pieces}
            \cup {<<x, y>> : x \in Pieces, y \in Pieces}
            \cup {<<x, y, z>> : x \in Pieces, y \in Pieces, z \in Pieces} :
        NoLiteralsSideBySide(q)}

PieceWord(q) == Join([i \in 1..Len(q) |-> q[i].w])

\* one name spelled with a dash and with an underscore, required and
\* optional, string and array
SpellingWords == {Req(NameDash), Opt(NameUnder), Opt(NameUnder \o Dots)}

ArgvSet ==
    {<<>>}
    \cup {<<<<"l", "s">>, PieceWord(q)>> : q \in PieceSeqs}
    \cup {<<b>> \o t : b \in BaseWords, t \in Tails}
    \cup {<<<<"l", "s">>, w>> : w \in Words}
    \cup {<<Req(NameA), w>> : w \in OtherArrayWords}
    \cup {<<Req(NameA \o Desc)>>, <<Req(<<" ">> \o NameA \o <<" ">>), <<"a">>>>}
    \cup {<<<<"l", "s">>, w>> : w \in ShortWords}
    \cup {<<<<"l", "s">>, v, w>> : v, w \in DescWords}
    \cup {<<<<"l", "s">>, v, w>> : v, w \in SpellingWords}
    \cup {<<b>> \o t : b \in BlankWords, t \in {<<>>, <<<<"a">>>>}}

\* a string value full of shell and template syntax
SpecialString == <<"{", "{", "a", "}", "}", " ", "[", "a", "]", ";", "$">>

RECURSIVE StringArray(_)
StringArray(k) ==
    IF k = 0 THEN <<>>
    ELSE Append(StringArray(k - 1),
                VString(IF k % 2 = 1 THEN <<"x">> ELSE <<"y", " ", "z">>))

\* arrays of strings, and an array whose last item is a number
ArrayValues ==
    {VArray(StringArray(k)) : k \in 0..MaxArr}
    \cup {VArray(Append(StringArray(MaxArr - 1), VNumber(7)))}

ScalarValues ==
    {VString(<<>>), VString(SpecialString), VBool(TRUE), VBool(FALSE), VNumber(7)}

Values == ScalarValues \cup ArrayValues

\* the field tokens of a blueprint
FieldTokens(b) ==
    UNION {{b.ShellWords[i][j] : j \in {k \in 1..Len(b.ShellWords[i]) :
                                            b.ShellWords[i][k].type = "field"}} :
           i \in 1..Len(b.ShellWords)}

\* a key callers supply to a template that names no parameter
ExtraKey == <<"a">>

\* the keys a caller may spell a blueprint's parameters with
KeysOf(b) ==
    IF FieldTokens(b) = {} THEN {ExtraKey}
    ELSE UNION {{t.Name, normalizeFieldName(t.Name), ReplaceAll(t.Name, "_", "-")} :
                t \in FieldTokens(b)}

\* the values maps a blueprint is called with
ParamsOf(b) ==
    UNION {[ks -> Values] : ks \in {k \in SUBSET KeysOf(b) : Cardinality(k) <= MaxKeys}}

NoParams == <<>>

----------------------------------------------------------------------------
(* The program: FromArgs at startup, then one tool call after another *)

Init ==
    /\ pc = "start"
    /\ argv = <<>>
    /\ bp = NoBlueprint
    /\ ferr = ""
    /\ params = NoParams
    /\ out = <<>>
    /\ err = NoError
    /\ toolResult = NoResult
    /\ executed = FALSE
    /\ served = FALSE
    /\ cli = <<>>
    /\ parsed = NotParsed

\* main: blueprint.FromArgs(args)
FromArgs(args) ==
    /\ pc = "start"
    /\ argv' = args
    /\ ferr' = FromArgsError(args)
    /\ IF FromArgsError(args) # ""
       THEN pc' = "failed" /\ bp' = NoBlueprint
       ELSE pc' = "ready" /\ bp' = FromArgsBlueprint(args)
    /\ UNCHANGED <<params, out, err, toolResult, executed, served, cli, parsed>>

\* the tool handler of CreateToolFunction: BuildCommandArgs; on an error the
\* validation result; otherwise Execute(fullCommand[0], fullCommand[1:]...),
\* which indexes the vector (and panics when it is empty), and its result
CallTool(p) ==
    /\ pc = "ready"
    /\ \E o \in BuildCommandArgs(bp, p) :
        /\ params' = p
        /\ out' = o.out
        /\ err' = o.err
        /\ IF o.err # NoError
           THEN /\ toolResult' = createToolResult(ValidationErrorText(o.err), TRUE)
                /\ executed' = FALSE
                /\ pc' = "called"
           ELSE IF Len(o.out) = 0
           THEN /\ toolResult' = NoResult
                /\ executed' = FALSE
                /\ pc' = "panicked"
           ELSE \E x \in ExecuteOutcomes :
                /\ toolResult' = createToolResult(x.output, x.failed)
                /\ executed' = TRUE
                /\ pc' = "called"
    /\ bp' = blueprintAfterRender(bp, p)
    /\ UNCHANGED <<argv, ferr, served, cli, parsed>>

\* the handler returns its result; the server waits for the next call
Return ==
    /\ pc = "called"
    /\ pc' = "ready"
    /\ params' = NoParams
    /\ out' = <<>>
    /\ err' = NoError
    /\ toolResult' = NoResult
    /\ executed' = FALSE
    /\ served' = TRUE
    /\ UNCHANGED <<argv, bp, ferr, cli, parsed>>

Next ==
    \/ \E args \in ArgvSet : FromArgs(args)
    \/ \E p \in ParamsOf(bp) : CallTool(p)
    \/ Return

Spec == Init /\ [][Next]_vars

----------------------------------------------------------------------------
(* The program's start: parseArgs on the arguments of studio-mcp *)

\* the most arguments on the command line
MaxCli == 3

CliWords ==
    {DebugFlag, VersionFlag, HelpFlag, ShortHelpFlag, <<"-", "v">>, <<"-">>,
     <<"l", "s">>, <<>>}

CliSet == SeqsUpTo(CliWords, MaxCli)

\* the root command: parseArgs(args)
ParseArgs(args) ==
    /\ pc = "start"
    /\ ~parsed.done
    /\ cli' = args
    /\ parsed' = parseArgs(args)
    /\ UNCHANGED <<pc, argv, bp, ferr, params, out, err, toolResult, executed, served>>

NextArgs == \E args \in CliSet : ParseArgs(args)

SpecArgs == Init /\ [][NextArgs]_vars

----------------------------------------------------------------------------
(* Vocabulary of the properties *)

\* BuildCommandArgs has returned for the call in progress
Returned == pc \in {"called", "panicked"}

\* ... and returned an argument vector and no error
Succeeded == Returned /\ err = NoError

Schema == GenerateInputSchema(bp)

NumWords == Len(bp.ShellWords)

\* what word i of the template added to the returned vector
Contribution(i) == wordContribution(bp, bp.ShellWords[i], params)

\* the three spellings of a name: as written, dashes as underscores,
\* underscores as dashes
Spellings(name) == {name, ReplaceAll(name, "-", "_"), ReplaceAll(name, "_", "-")}

\* a name is supplied when the values map has it under one of its spellings
Supplied(name) == Spellings(name) \cap DOMAIN params # {}

----------------------------------------------------------------------------
(* C1 *)

\* C1: every successful BuildCommandArgs returns a non-empty vector whose
\* first element is the blueprint's base command argv[0], also when argv[0]
\* itself holds placeholder syntax.
C1_BaseCommandFirst ==
    Succeeded => (Len(out) > 0 /\ out[1] = bp.BaseCommand)

----------------------------------------------------------------------------
(* C2 *)

RequiredNotSupplied == {i \in 1..Len(Schema.Required) : ~Supplied(Schema.Required[i])}

\* C2: BuildCommandArgs fails with a missing-parameter error naming the
\* parameter, and returns no vector, whenever a name of the schema's required
\* list is in the values map under none of its spellings; it never fails with
\* that error when every required name is supplied.
C2_MissingRequired ==
    Returned =>
        /\ RequiredNotSupplied # {} =>
                /\ err.kind = "missing"
                /\ \E i \in RequiredNotSupplied : err.name = Schema.Required[i]
                /\ out = <<>>
        /\ RequiredNotSupplied = {} => err.kind # "missing"

\* a call is rejected for a missing name although other keys were supplied,
\* and a call passes validation with a required name spelled the other way
C2_Witness ==
    /\ Returned
    /\ err.kind = "missing"
    /\ DOMAIN params # {}
    /\ Contains(err.name, <<"_">>)

----------------------------------------------------------------------------
(* C3 *)

Tokens(i) == bp.ShellWords[i]

\* a scalar placeholder: neither an array nor a boolean flag
ScalarField(t) == t.type = "field" /\ ~t.IsArray /\ t.OriginalFlag = <<>>

\* the scalar placeholders of word i for which a string is supplied
StringFields(i) ==
    {j \in 1..Len(Tokens(i)) :
        /\ ScalarField(Tokens(i)[j])
        /\ findParamValue(params, Tokens(i)[j].Name).exists
        /\ findParamValue(params, Tokens(i)[j].Name).value.t = "string"}

\* the string form of a value: a string as it is, anything else as fmt prints it
StringForm(v) == IF v.t = "string" THEN v.s ELSE Sprintv(v)

\* the text of a word with every field replaced by the string form of its
\* value, an absent field by nothing
RECURSIVE ExpectedConcat(_, _)
ExpectedConcat(tokens, p) ==
    IF tokens = <<>> THEN <<>>
    ELSE (IF Head(tokens).type = "text" THEN Head(tokens).Value
          ELSE IF findParamValue(p, Head(tokens).Name).exists
          THEN StringForm(findParamValue(p, Head(tokens).Name).value)
          ELSE <<>>)
         \o ExpectedConcat(Tail(tokens), p)

\* word i holds a placeholder that key k can supply
HoldsKey(i, k) ==
    \E j \in 1..Len(Tokens(i)) :
        Tokens(i)[j].type = "field" /\ k \in Spellings(Tokens(i)[j].Name)

AltStrings == {<<>>, <<"x">>, SpecialString}

\* replacing the string under key k by any other string leaves the entries
\* of every word that does not hold the placeholder as they were
OtherWordsUnchanged ==
    \A k \in DOMAIN params : params[k].t = "string" =>
        \A s2 \in AltStrings : \A i \in 1..NumWords :
            ~HoldsKey(i, k) =>
                wordContribution(bp, Tokens(i), [params EXCEPT ![k] = VString(s2)])
                    = Contribution(i)

LoneOptionalTypedBoolean(i) ==
    /\ Len(Tokens(i)) = 1
    /\ ~Tokens(i)[1].Required
    /\ normalizeFieldName(Tokens(i)[1].Name) \in DOMAIN Schema.Properties
    /\ Schema.Properties[normalizeFieldName(Tokens(i)[1].Name)].Type = "boolean"

----------------------------------------------------------------------------
(* C4 *)

\* the name part of a placeholder's content: what precedes the first #
NamePart(content) == TrimSpace(SplitHash(content)[1])

\* a word holds a well-formed placeholder: an opener, a closer of the same
\* kind after it, and a name that is not blank between them
HasPlaceholder(w) ==
    \/ \E i \in 0..Len(w) : \E j \in (i + 2)..(Len(w) - 2) :
            /\ Slice(w, i, i + 2) = OpenReq
            /\ Slice(w, j, j + 2) = CloseReq
            /\ NamePart(Slice(w, i + 2, j)) # <<>>
    \/ \E i \in 0..Len(w) : \E j \in (i + 1)..(Len(w) - 1) :
            /\ Slice(w, i, i + 1) = OpenOpt
            /\ Slice(w, j, j + 1) = CloseOpt
            /\ NamePart(Slice(w, i + 1, j)) # <<>>

LiteralArgv ==
    /\ pc # "start"
    /\ argv # <<>>
    /\ TrimSpace(argv[1]) # <<>>
    /\ \A i \in 1..Len(argv) : ~HasPlaceholder(argv[i])

----------------------------------------------------------------------------
(* C5 - C8: what one word contributes *)

\* the one token of a word that is exactly one placeholder
Lone(i) == Tokens(i)[1]

LoneField(i) == Len(Tokens(i)) = 1 /\ Lone(i).type = "field"

\* word i is exactly one array placeholder, [name...] or {{name...}}
ArrayWord(i) == LoneField(i) /\ Lone(i).IsArray /\ Lone(i).OriginalFlag = <<>>

\* word i is exactly one boolean-flag placeholder, [-f] or [--flag]
FlagWord(i) == LoneField(i) /\ Lone(i).OriginalFlag # <<>> /\ ~Lone(i).IsArray

\* word i is exactly one optional scalar placeholder, [name]
OptionalScalarWord(i) == LoneField(i) /\ ScalarField(Lone(i)) /\ ~Lone(i).Required

\* word i is exactly one required scalar placeholder, {{name}}
RequiredScalarWord(i) == LoneField(i) /\ ScalarField(Lone(i)) /\ Lone(i).Required

\* the value the values map supplies for the placeholder of a lone-field word
LoneValue(i) == findParamValue(params, Lone(i).Name)

StringArrayValue(v) ==
    v.t = "array" /\ \A k \in 1..Len(v.a) : v.a[k].t = "string"

\* a meaningful value: a non-empty string, true, a number, a non-empty array
Meaningful(v) ==
    \/ v.t = "string" /\ v.s # <<>>
    \/ v.t = "bool" /\ v.b
    \/ v.t = "float64"
    \/ v.t = "array" /\ v.a # <<>>

\* C5 (for arrays of strings): on a successful render a word that is exactly
\* one array placeholder contributes nothing when its value is absent or an
\* empty array, and otherwise one entry per element, in order, each equal to
\* its element.
C5_ArrayOneEntryPerElement ==
    Succeeded =>
        \A i \in 1..NumWords : ArrayWord(i) =>
            IF ~LoneValue(i).exists THEN Contribution(i) = <<>>
            ELSE StringArrayValue(LoneValue(i).value) =>
                    Contribution(i) =
                        [k \in 1..Len(LoneValue(i).value.a) |-> LoneValue(i).value.a[k].s]

\* C6: on a successful render a word that is exactly one boolean-flag
\* placeholder contributes one entry, the flag as it was written, when the
\* supplied value is boolean true, and nothing in every other case.
C6_FlagOnlyWhenTrue ==
    Succeeded =>
        \A i \in 1..NumWords : FlagWord(i) =>
            IF LoneValue(i).exists /\ LoneValue(i).value = VBool(TRUE)
            THEN Contribution(i) = <<Lone(i).OriginalFlag>>
            ELSE Contribution(i) = <<>>

\* C7: on a successful render a word that is exactly one optional scalar
\* placeholder contributes one entry, the string form of the supplied value,
\* when the value is present and not empty, and nothing when the value is
\* absent or the empty string.
C7_OptionalScalar ==
    Succeeded =>
        \A i \in 1..NumWords : OptionalScalarWord(i) =>
            /\ (~LoneValue(i).exists \/ LoneValue(i).value = VString(<<>>))
                    => Contribution(i) = <<>>
            /\ (LoneValue(i).exists /\ Meaningful(LoneValue(i).value))
                    => Contribution(i) = <<StringForm(LoneValue(i).value)>>

\* word i holds literal text or a required field
HasTextOrRequired(i) ==
    \E j \in 1..Len(Tokens(i)) : Tokens(i)[j].type = "text" \/ Tokens(i)[j].Required

\* C8 (for words holding literal text or a required field): on a successful
\* render a word of mixed tokens, or a single required scalar field,
\* contributes exactly one entry: the concatenation, in token order, of every
\* text token and of the string form of every field's supplied value, an
\* absent optional field adding nothing.
C8_OneConcatenatedEntry ==
    Succeeded =>
        \A i \in 1..NumWords :
            ((Len(Tokens(i)) >= 2 /\ HasTextOrRequired(i)) \/ RequiredScalarWord(i)) =>
                Contribution(i) = <<ExpectedConcat(Tokens(i), params)>>

----------------------------------------------------------------------------
(* C9 *)

\* the values map p with key k respelled k2
Rename(p, k, k2) ==
    [x \in (DOMAIN p \ {k}) \cup {k2} |-> IF x = k2 THEN p[k] ELSE p[x]]

\* the argument vectors a call can return
SuccessArgvs(b, p) == {o.out : o \in {x \in BuildCommandArgs(b, p) : x.err = NoError}}

\* C9: a field is satisfied alike by a key spelled as declared and by the key
\* with dashes and underscores exchanged: whenever a call supplies a field
\* under the other spelling only, the same call with the key spelled as
\* declared passes or fails validation alike and returns the same vector.
C9_DashUnderscoreEquivalent ==
    Returned =>
        \A t \in FieldTokens(bp) :
            \A k \in (Spellings(t.Name) \cap DOMAIN params) \ {t.Name} :
                Spellings(t.Name) \cap DOMAIN params = {k} =>
                    SuccessArgvs(bp, Rename(params, k, t.Name)) = SuccessArgvs(bp, params)

----------------------------------------------------------------------------
(* C10 *)

\* the supplied keys whose schema property is typed array and whose value is
\* no array
NonArrayForArray ==
    {k \in DOMAIN params :
        /\ ReplaceAll(k, "-", "_") \in DOMAIN Schema.Properties
        /\ Schema.Properties[ReplaceAll(k, "-", "_")].Type = "array"
        /\ params[k].t # "array"}

TypeErrorNamesOffender ==
    /\ err.kind = "type"
    /\ err.name \in NonArrayForArray
    /\ err.got = TypeName(params[err.name])
    /\ out = <<>>

\* C10 as stated: BuildCommandArgs fails with a type error naming the
\* parameter and its actual type, and returns no vector, whenever the values
\* map holds a non-array value for a key whose property is typed array; an
\* array never triggers the error.
C10_TypeErrorWhenever ==
    Returned =>
        /\ NonArrayForArray # {} => TypeErrorNamesOffender
        /\ err.kind = "type" => err.name \in NonArrayForArray

\* C10 (amended): whenever the values map holds a non-array value for a key
\* whose property is typed array, BuildCommandArgs fails and returns no
\* vector; the error is the type error naming such a key and its actual type
\* unless a required parameter is missing, which is reported instead; an
\* array never triggers the type error.
C10_TypeErrorUnlessMissing ==
    Returned =>
        /\ NonArrayForArray # {} =>
                /\ err # NoError
                /\ out = <<>>
                /\ IF RequiredNotSupplied # {} THEN err.kind = "missing"
                   ELSE TypeErrorNamesOffender
        /\ err.kind = "type" => err.name \in NonArrayForArray

\* a dash-spelled key holding a string is rejected for a property typed array
C10_Witness ==
    /\ Returned
    /\ TypeErrorNamesOffender
    /\ Contains(err.name, <<"-">>)
    /\ err.got = "string"

----------------------------------------------------------------------------
(* C11 *)

\* BuildCommandArgs failed for the call in progress
ValidationFailed == Returned /\ err # NoError

\* C11: when BuildCommandArgs fails for a tool call, the handler returns an
\* ordinary tool result with isError = true whose text is "Validation error: "
\* followed by the error message, returns no protocol-level error, does not
\* start the subprocess for that call, and the server can return to serving
\* the next call.
C11_ValidationErrorResult ==
    ValidationFailed =>
        /\ toolResult.returned
        /\ toolResult.IsError
        /\ toolResult.Text = ValidationPrefix \o ErrorText(err)
        /\ HasPrefix(toolResult.Text, ValidationPrefix)
        /\ toolResult.Err = "nil"
        /\ ~executed
        /\ pc = "called"
        /\ ENABLED Return

\* a call that fails with a type error has returned its result
C11_Witness ==
    /\ ValidationFailed
    /\ err.kind = "type"
    /\ toolResult.returned
    /\ argv[1] = <<"l", "s">>

----------------------------------------------------------------------------
(* C12, C13, C14 *)

\* FromArgs returned a blueprint
Accepted == pc \in {"ready", "called", "panicked"}

\* the names the schema lists as required
RequiredNames == {Schema.Required[i] : i \in 1..Len(Schema.Required)}

\* the array placeholders of the template: written name... and not as a flag
ArrayPlaceholders == {t \in FieldTokens(bp) : t.IsArray /\ t.OriginalFlag = <<>>}

\* C12: every array placeholder, written {{name...}} or [name...], yields a
\* schema property of type array with string items whose normalized name is
\* in the schema's required list.
C12_ArrayPlaceholderRequired ==
    Accepted =>
        \A t \in ArrayPlaceholders :
            LET n == normalizeFieldName(t.Name)
            IN  /\ n \in DOMAIN Schema.Properties
                /\ Schema.Properties[n].Type = "array"
                /\ Schema.Properties[n].Items = "string"
                /\ n \in RequiredNames

EmptyRequiredArrays ==
    {t \in ArrayPlaceholders :
        /\ t.Required
        /\ findParamValue(params, t.Name).exists
        /\ findParamValue(params, t.Name).value = VArray(<<>>)}

\* C14: BuildCommandArgs does not succeed when the value supplied for a
\* required array placeholder {{name...}} is an empty array.
C14_EmptyRequiredArrayFails ==
    (Returned /\ EmptyRequiredArrays # {}) => err # NoError

----------------------------------------------------------------------------
(* C15 *)

\* the tokens of the template in word order, then token order
AllTokens == Join(bp.ShellWords)

\* the positions of the placeholders whose normalized name is n
Occurrences(n) ==
    {i \in 1..Len(AllTokens) :
        AllTokens[i].type = "field" /\ normalizeFieldName(AllTokens[i].Name) = n}

\* the #description a placeholder was written with (a flag written without
\* one carries the generated "Enable ... flag" text)
WrittenDescription(t) ==
    IF t.OriginalFlag # <<>> /\ t.Description = EnableFlagDescription(t.OriginalFlag)
    THEN <<>> ELSE t.Description

\* the positions of the placeholders named n written with a description
Described(n) == {i \in Occurrences(n) : WrittenDescription(AllTokens[i]) # <<>>}

PropertyNames == {normalizeFieldName(t.Name) : t \in FieldTokens(bp)}

\* C15: placeholders that share a normalized name have one schema property,
\* whose description is the #description of the first occurrence written with
\* a non-empty one: an occurrence without a description neither erases nor
\* blocks it, and a later occurrence's description is used when no earlier
\* occurrence supplied one.
C15_FirstWrittenDescription ==
    Accepted =>
        /\ DOMAIN Schema.Properties = PropertyNames
        /\ \A n \in PropertyNames :
                Described(n) # {} =>
                    LET first == CHOOSE i \in Described(n) : \A j \in Described(n) : i <= j
                    IN  Schema.Properties[n].Description = AllTokens[first].Description

----------------------------------------------------------------------------
(* C16 *)

\* a word with no character other than white space
Blank(w) == \A i \in 1..Len(w) : w[i] \in WhiteSpace

\* C16: FromArgs returns an error exactly when argv is empty or argv[0] is
\* empty or only white space; for every other argv, whatever template syntax
\* its words hold, it returns a blueprint (one tokenized word per argument,
\* argv[0] as base command) and no error.
C16_FromArgsErrorExactly ==
    pc # "start" =>
        /\ (ferr # "") <=> (argv = <<>> \/ Blank(argv[1]))
        /\ ferr # "" => pc = "failed" /\ bp = NoBlueprint
        /\ ferr = "" =>
                /\ pc # "failed"
                /\ bp.BaseCommand = argv[1]
                /\ Len(bp.ShellWords) = Len(argv)
                /\ \A i \in 1..Len(argv) : Len(bp.ShellWords[i]) >= 1

\* an argv with an unterminated placeholder is accepted
C16_Witness ==
    /\ pc = "ready"
    /\ ferr = ""
    /\ Len(argv) = 2
    /\ argv[2] = <<"{", "{", "a">>
    /\ bp.ShellWords[2] = <<TextToken(argv[2])>>

----------------------------------------------------------------------------
(* C17 *)

\* a placeholder as the command format is to show it: without description,
\* a flag by its original spelling, an array with the three dots
DisplayOf(t) ==
    IF t.OriginalFlag # <<>> THEN OpenOpt \o t.OriginalFlag \o CloseOpt
    ELSE IF t.Required
         THEN OpenReq \o t.Name \o (IF t.IsArray THEN Dots ELSE <<>>) \o CloseReq
    ELSE IF t.IsArray THEN OpenOpt \o t.Name \o Dots \o CloseOpt
    ELSE OpenOpt \o t.Name \o CloseOpt

\* word i as the command format is to show it
WordDisplay(i) ==
    Join([j \in 1..Len(Tokens(i)) |->
            IF Tokens(i)[j].type = "field" THEN DisplayOf(Tokens(i)[j])
            ELSE Tokens(i)[j].Value])

\* C17: GetCommandFormat is the words joined by single spaces, beginning
\* with the base command, literal text verbatim and each placeholder without
\* its description ({{name}}, [name], [name...], [-f]); the tool description
\* is "Run the shell command " followed by that string in backquotes.
C17_CommandFormat ==
    Accepted =>
        /\ GetCommandFormat(bp) = JoinSpace([i \in 1..NumWords |-> WordDisplay(i)])
        /\ HasPrefix(GetCommandFormat(bp), GetBaseCommand(bp))
        /\ \A i \in 1..NumWords :
                (\A j \in 1..Len(Tokens(i)) : Tokens(i)[j].type = "field")
                => ~Contains(WordDisplay(i), <<"#">>)
        /\ SubSeq(GetToolDescription(bp), 1, 22) = SubSeq(RunPrefix, 1, 22)
        /\ GetToolDescription(bp)[23] = Backquote
        /\ HasSuffix(GetToolDescription(bp), GetCommandFormat(bp) \o <<Backquote>>)
        /\ Len(GetToolDescription(bp)) = Len(GetCommandFormat(bp)) + 24

----------------------------------------------------------------------------
(* C18 *)

Letters ==
    {"a", "b", "c", "d", "e", "f", "g", "h", "i", "j", "k", "l", "m", "n", "o",
     "p", "q", "r", "s", "t", "u", "v", "w", "x", "y", "z",
     "A", "B", "C", "D", "E", "F", "G", "H", "I", "J", "K", "L", "M", "N", "O",
     "P", "Q", "R", "S", "T", "U", "V", "W", "X", "Y", "Z"}

Digits == {"0", "1", "2", "3", "4", "5", "6", "7", "8", "9"}

\* the characters a schema property key is to consist of
KeyChars == Letters \cup Digits \cup {"_"}

\* C18: for every accepted argv, every key of the schema's properties map
\* consists only of letters, digits and underscores: it is the template name
\* with its dashes replaced by underscores and its letter case kept.
C18_SchemaKeyCharset ==
    Accepted =>
        /\ \A n \in DOMAIN Schema.Properties : \A i \in 1..Len(n) : n[i] \in KeyChars
        /\ DOMAIN Schema.Properties =
                {[i \in 1..Len(t.Name) |-> IF t.Name[i] = "-" THEN "_" ELSE t.Name[i]] :
                    t \in FieldTokens(bp)}

----------------------------------------------------------------------------
(* C19, C20 *)

\* the blueprint as FromArgs returned it
Fresh == FromArgsBlueprint(argv)

\* C19: after any sequence of BuildCommandArgs calls, succeeding or failing,
\* the blueprint's base command, shell words, input schema and command
\* format are what they were when FromArgs returned, and the outcome of the
\* call in progress is one the freshly built blueprint gives for its values
\* map, whatever calls came before.
C19_RenderLeavesBlueprint ==
    Accepted =>
        LET fresh == Fresh
        IN  /\ GetBaseCommand(bp) = GetBaseCommand(fresh)
            /\ bp.ShellWords = fresh.ShellWords
            /\ GenerateInputSchema(bp) = GenerateInputSchema(fresh)
            /\ GetCommandFormat(bp) = GetCommandFormat(fresh)
            /\ Returned => Outcome(out, err) \in BuildCommandArgs(fresh, params)

\* a call that renders two words or more, after an earlier call was served
C19_Witness ==
    /\ served
    /\ Succeeded
    /\ Len(out) >= 2
    /\ Len(bp.ShellWords) >= 2
    /\ FieldTokens(bp) # {}

\* C20: tokenizing the same argv again yields equal token sequences, and a
\* BuildCommandArgs call on the same blueprint with an equal values map
\* returns the outcome of the call in progress: the same argument vector, or
\* the same error naming the same parameter.
C20_Deterministic ==
    /\ Accepted => bp.ShellWords = [i \in 1..Len(argv) |-> tokenizeShellWord(argv[i])]
    /\ Returned => BuildCommandArgs(bp, params) = {Outcome(out, err)}

----------------------------------------------------------------------------
(* C21 *)

\* the assemblies of a word: the piece sequences, with no two literal
\* stretches side by side, that spell it
AssembliesOf(w) == {q \in PieceSeqs : PieceWord(q) = w}

----------------------------------------------------------------------------
(* C22 *)

\* bracketed texts whose name is empty, at once or after the description,
\* the array suffix or the flag dashes are taken away
EmptyNamedWords ==
    {Req(<<>>), Req(<<" ">>), Req(Desc), Opt(<<>>), Opt(Desc), Opt(Dots), Opt(<<"-">>)}

\* C22: every field token has a non-empty name, so that no schema property
\* is keyed by the empty string; a placeholder whose name is empty, also
\* when it is empty only without its description, array suffix or flag
\* dashes, becomes one text token holding the whole bracketed text.
C22_NoEmptyFieldName ==
    Accepted =>
        /\ \A t \in FieldTokens(bp) : t.Name # <<>>
        /\ <<>> \notin DOMAIN Schema.Properties
        /\ \A i \in 1..NumWords :
                argv[i] \in EmptyNamedWords => Tokens(i) = <<TextToken(argv[i])>>

----------------------------------------------------------------------------
(* C23 *)

HasText(i) == \E j \in 1..Len(Tokens(i)) : Tokens(i)[j].type = "text"

HasRequiredField(i) ==
    \E j \in 1..Len(Tokens(i)) : Tokens(i)[j].type = "field" /\ Tokens(i)[j].Required

\* an optional field of word i has a meaningful supplied value
HasMeaningfulOptional(i) ==
    \E j \in 1..Len(Tokens(i)) :
        /\ Tokens(i)[j].type = "field"
        /\ ~Tokens(i)[j].Required
        /\ findParamValue(params, Tokens(i)[j].Name).exists
        /\ Meaningful(findParamValue(params, Tokens(i)[j].Name).value)

\* C23: on a successful render a word is dropped exactly when it has no
\* text token, no required field and no optional field with a meaningful
\* supplied value; a word with a text token or with such an optional field
\* contributes at least one entry.
C23_DroppedExactlyWhen ==
    Succeeded =>
        \A i \in 1..NumWords :
            /\ (Contribution(i) = <<>>)
                    <=> ~(HasText(i) \/ HasRequiredField(i) \/ HasMeaningfulOptional(i))
            /\ (HasText(i) \/ HasMeaningfulOptional(i)) => Len(Contribution(i)) >= 1

----------------------------------------------------------------------------
(* C24 *)

\* word i holds a required scalar field
HasRequiredScalar(i) ==
    \E j \in 1..Len(Tokens(i)) :
        Tokens(i)[j].type = "field" /\ Tokens(i)[j].Required /\ ~Tokens(i)[j].IsArray

\* C24: on a successful render every word with a required scalar field
\* contributes exactly one entry, also when the supplied value is the empty
\* string: a word that is only {{name}} with the value "" contributes one
\* empty entry.
C24_RequiredWordOneEntry ==
    Succeeded =>
        \A i \in 1..NumWords :
            /\ HasRequiredScalar(i) => Len(Contribution(i)) = 1
            /\ (RequiredScalarWord(i) /\ LoneValue(i).exists
                    /\ LoneValue(i).value = VString(<<>>))
                => Contribution(i) = << <<>> >>

----------------------------------------------------------------------------
(* C25 *)

\* the bracketed texts the scan of a word finds from position pos on
RECURSIVE PlaceholderTexts(_, _)
PlaceholderTexts(word, pos) ==
    IF pos >= Len(word) \/ findNextTemplate(word, pos) = NoMatch THEN {}
    ELSE LET m == findNextTemplate(word, pos)
         IN  {Slice(word, m.Start, m.End)} \cup PlaceholderTexts(word, m.End)

\* no placeholder of the word carries a description or white space
PlainPlaceholders(word) ==
    \A t \in PlaceholderTexts(word, 0) :
        \A k \in 1..Len(t) : t[k] # "#" /\ t[k] \notin WhiteSpace

\* the display form of word i
Display(i) == renderTokensForDisplay(Tokens(i))

----------------------------------------------------------------------------
(* C26 *)

\* C26: tokenizing any word, the empty string included, yields at least one
\* token, and a word that holds neither {{ nor [ yields exactly one text
\* token whose value is the whole word.
C26_AtLeastOneToken ==
    pc = "ready" =>
        \A i \in 1..NumWords :
            /\ Len(Tokens(i)) >= 1
            /\ (\A k \in 1..Len(argv[i]) : argv[i][k] # "[" /\
                    (k < Len(argv[i]) => ~(argv[i][k] = "{" /\ argv[i][k + 1] = "{")))
                => /\ Len(Tokens(i)) = 1
                   /\ Tokens(i)[1].type = "text"
                   /\ Tokens(i)[1].Value = argv[i]

\* the empty word is one empty text token
C26_Witness ==
    /\ pc = "ready"
    /\ NumWords = 2
    /\ argv[2] = <<>>
    /\ Len(Tokens(2)) = 1
    /\ Tokens(2)[1].type = "text"
    /\ Tokens(2)[1].Value = <<>>

----------------------------------------------------------------------------
(* C27 *)

\* the index of the first argument that does not start with a dash
\* (one past the end when there is none)
FirstNonFlag ==
    IF \E k \in 1..Len(cli) : ~HasPrefix(cli[k], <<"-">>)
    THEN CHOOSE k \in 1..Len(cli) :
            /\ ~HasPrefix(cli[k], <<"-">>)
            /\ \A j \in 1..(k - 1) : HasPrefix(cli[j], <<"-">>)
    ELSE Len(cli) + 1

\* the arguments before it
LeadingFlags == {cli[j] : j \in 1..(FirstNonFlag - 1)}

OwnFlags == {DebugFlag, VersionFlag, HelpFlag, ShortHelpFlag}

\* C27: parseArgs takes studio-mcp's flags only from the front and stops at
\* the first argument that does not start with a dash: that argument and all
\* after it, also --debug, --version, --help and other dashed ones, are the
\* command, unchanged and in order; an unrecognized leading flag is an error
\* and no command is returned.
C27_FlagsOnlyFromFront ==
    parsed.done =>
        /\ LeadingFlags \subseteq {DebugFlag, VersionFlag} =>
                /\ parsed.err = ""
                /\ parsed.commandArgs = SubSeq(cli, FirstNonFlag, Len(cli))
                /\ parsed.debugFlag = (DebugFlag \in LeadingFlags)
                /\ parsed.versionFlag = (VersionFlag \in LeadingFlags)
        /\ ~(LeadingFlags \subseteq OwnFlags) =>
                /\ parsed.err # ""
                /\ parsed.commandArgs = <<>>
        /\ parsed.err = "unknown flag" =>
                /\ parsed.flag \in LeadingFlags \ OwnFlags
                /\ parsed.commandArgs = <<>>

\* --debug, then a command that itself holds --version
C27_Witness ==
    /\ parsed.done
    /\ cli = <<DebugFlag, <<"l", "s">>, VersionFlag>>
    /\ parsed.commandArgs = <<<<"l", "s">>, VersionFlag>>
    /\ parsed.debugFlag
    /\ ~parsed.versionFlag

----------------------------------------------------------------------------
(* C28 *)

\* a call got past the validation of the required parameters
RequiredValidationPassed == pc \in {"called", "panicked"} /\ err.kind # "missing"

RequiredTokens == {t \in FieldTokens(bp) : t.Required}

\* C28: whenever the validation of the required parameters passes, the lookup
\* the renderer makes for each required field token of the template, by the
\* name as the template spells it, finds a supplied entry.
C28_RequiredLookupResolves ==
    RequiredValidationPassed =>
        \A t \in RequiredTokens :
            LET looked == findParamValue(params, t.Name)
            IN  /\ looked.exists
                /\ \E k \in DOMAIN params : params[k] = looked.value

\* a required field spelled with a dash and an underscore, supplied under
\* another spelling, and rendered
C28_Witness ==
    /\ RequiredValidationPassed
    /\ err = NoError
    /\ \E t \in RequiredTokens : t.Name = NameMixed
    /\ NameMixed \notin DOMAIN params
    /\ out # <<>>

----------------------------------------------------------------------------
(* C29 *)

\* the entries the i-th template word contributes to the call at hand
EntriesOf(i) == wordContribution(bp, bp.ShellWords[i], params)

\* out, from entry number from on, is the entries of word i, then those of
\* word i + 1, and so on to the last word
RECURSIVE InTemplateOrder(_, _)
InTemplateOrder(i, from) ==
    IF i > Len(bp.ShellWords) THEN from = Len(out) + 1
    ELSE LET n == Len(EntriesOf(i))
         IN  /\ from + n - 1 <= Len(out)
             /\ SubSeq(out, from, from + n - 1) = EntriesOf(i)
             /\ InTemplateOrder(i + 1, from + n)

Rendered29 == pc \in {"called", "panicked"} /\ err = NoError

\* C29: the rendered argv keeps the order of the template: it is the entries
\* of the first word, then those of the second, and so on, so that every
\* entry of an earlier word stands before every entry of a later one,
\* whichever words are dropped.
C29_TemplateOrder == Rendered29 => InTemplateOrder(1, 1)

\* a word that contributes, a later one that is dropped, and a still later
\* one that contributes something else
C29_Witness ==
    /\ Rendered29
    /\ \E i, j, k \in 1..Len(bp.ShellWords) :
            /\ i < j /\ j < k
            /\ EntriesOf(i) # <<>>
            /\ EntriesOf(j) = <<>>
            /\ EntriesOf(k) # <<>>
            /\ EntriesOf(i) # EntriesOf(k)

----------------------------------------------------------------------------
(* C30 *)

\* C30: for every argv FromArgs accepts, no name stands twice in the schema's
\* required list and every name in the list is a key of the schema's
\* properties, also when a name occurs several times, required in one place
\* and optional in another, as a string and as an array, with a dash and with
\* an underscore.
C30_RequiredListWellFormed ==
    Accepted =>
        /\ Cardinality(RequiredNames) = Len(Schema.Required)
        /\ RequiredNames \subseteq DOMAIN Schema.Properties

\* one name, required with a dash in one word and an optional array with an
\* underscore in another
C30_Witness ==
    /\ pc = "ready"
    /\ \E t, u \in FieldTokens(bp) :
            /\ t.Name # u.Name
            /\ normalizeFieldName(t.Name) = normalizeFieldName(u.Name)
            /\ t.Required /\ ~u.Required
            /\ ~t.IsArray /\ u.IsArray
            /\ normalizeFieldName(t.Name) \in RequiredNames
    /\ Len(Schema.Required) = 1

====
